---- MODULE Spec2Model ----
(***************************************************************************)
(* juicydb: the node codec of src/src/btree.rs, the storage manager of     *)
(* src/src/storage_manager.rs with src/src/db.rs, and the parser of        *)
(* src/src/parser.rs, and the REPL loop of src/src/main.rs that puts the   *)
(* last two together.  Each has its own specification: Spec (codec),       *)
(* StorageSpec, ParserSpec and ReplSpec; the variables a specification     *)
(* does not use stay idle.                                                 *)
(*                                                                         *)
(* btree.rs declares BTree, KeyCell and BTreeNode and implements one       *)
(* operation, BTreeNode::read, the decoder of a 4096-byte page.  `impl     *)
(* BTree` (lines 111-130) holds only a commented-out serialize; there is   *)
(* no lookup, insert, split, scan, read_page, write_page or allocate_page  *)
(* anywhere in the repository, so none of them appears below.              *)
(*                                                                         *)
(* Bytes are naturals 0..255.  A u32 is assembled from four bytes as the   *)
(* code does; the sample bytes keep the most significant byte below 128 so *)
(* that the value stays inside TLC's integer range.                        *)
(***************************************************************************)
EXTENDS Integers, Naturals, Sequences, FiniteSets, TLC

VARIABLES node, page, result, pc,
          shape, line, parserInput, cmd,
          tables, call, ret,
          replPc, stdout

\* the node codec: a BTreeNode value, a page buffer, the value read returns
codecVars == <<node, page, result, pc>>

\* the parser: the line given to Parser::new, Parser.input, the parsed command
parserVars == <<shape, line, parserInput, cmd>>

\* the storage manager: StorageManager.tables, the last call and its result
storageVars == <<tables, call, ret>>

\* the REPL of main: its position in the loop, what the last iteration printed
replVars == <<replPc, stdout>>

vars == <<node, page, result, pc, shape, line, parserInput, cmd, tables, call, ret,
          replPc, stdout>>

\* ------------------------------------------------------------ page layout

\* [u8; 4096], the parameter type of BTreeNode::read
PageSize == 4096

\* [bool; 256], [u8; 256], [KeyCell; 256] of BTreeNode::Internal
InternalSlots == 256

\* [bool; 64], [u8; 64], [Row; 64] of BTreeNode::Leaf
LeafSlots == 64

\* input[1..257]: the free-cell flags start at byte 1
FlagsOffset == 1

\* input[1792..2048]: the slot directory ("pointers")
PointersOffset == 1792

\* input[(i * 8 + 2048)..]: the cell array
CellsOffset == 2048

\* i * 8: one KeyCell is a 4-byte key and a 4-byte page id
KeyCellSize == 8

\* the byte literals b'0' and b'1' the decoder matches on
AsciiZero == 48

AsciiOne == 49

\* 4096-byte page buffers are functions over 0..4095
PageIndex == 0 .. (PageSize - 1)

\* ------------------------------------------------------------ bounds

\* largest number of occupied cells in a sampled node
MaxCells == 2

\* largest first key of a sampled node
MaxKey == 2

\* ------------------------------------------------------------ decoder

\* ((b0 as u32) << 24) | ((b1 as u32) << 16) | ((b2 as u32) << 8) | (b3 as u32)
BigEndianU32(input, off) ==
    input[off] * 16777216 + input[off + 1] * 65536
        + input[off + 2] * 256 + input[off + 3]

\* panic!(..): the decoder has no error value, it unwinds
Panic(msg) == [kind |-> "Panic", msg |-> msg]

\* the b'1' arm: three empty blocks, no BTreeNode is built
UnitValue == [kind |-> "Unit"]

\* the b'0' arm of read: freecells, pointers, cells
ReadInternal(input) ==
    IF \E i \in 0 .. (InternalSlots - 1) :
           input[FlagsOffset + i] \notin {AsciiZero, AsciiOne}
    THEN Panic("Invalid freecell list")
    ELSE [kind      |-> "Internal",
          freecells |-> [i \in 0 .. (InternalSlots - 1) |->
                            input[FlagsOffset + i] = AsciiOne],
          pointers  |-> [i \in 0 .. (InternalSlots - 1) |->
                            input[PointersOffset + i]],
          cells     |-> [i \in 0 .. (InternalSlots - 1) |->
                            [key     |-> BigEndianU32(input, i * KeyCellSize + CellsOffset),
                             page_id |-> BigEndianU32(input, i * KeyCellSize + CellsOffset + 4)]]]

\* BTreeNode::read: match input[0]
read(input) ==
    IF input[0] = AsciiZero THEN ReadInternal(input)
    ELSE IF input[0] = AsciiOne THEN UnitValue
    ELSE Panic("Invalid enum flag")

\* ------------------------------------------------------------ encoder

\* byte j (0 = most significant) of a 32-bit value
ByteOf(v, j) ==
    IF j = 0 THEN (v \div 16777216) % 256
    ELSE IF j = 1 THEN (v \div 65536) % 256
    ELSE IF j = 2 THEN (v \div 256) % 256
    ELSE v % 256

\* bytes reserved for one DataCell: the 2048 bytes after the directory, 64 slots
LeafCellSize == 32

\* DBValue::Integer(i64) and DBValue::Text(String) of db.rs
IntegerValue(i) == [type |-> "Integer", val |-> i]

TextValue(bytes) == [type |-> "Text", val |-> bytes]

\* fixed-width integer, length-prefixed text
EncodeValue(v) ==
    IF v.type = "Integer"
    THEN <<0, 0, 0, 0, ByteOf(v.val, 0), ByteOf(v.val, 1), ByteOf(v.val, 2), ByteOf(v.val, 3)>>
    ELSE <<Len(v.val)>> \o v.val

RECURSIVE EncodeRow(_)
\* the row's values in schema order
EncodeRow(row) ==
    IF row = <<>> THEN <<>>
    ELSE EncodeValue(Head(row)) \o EncodeRow(Tail(row))

\* number of slots of a node of either kind
SlotsOf(n) == IF n.kind = "Internal" THEN InternalSlots ELSE LeafSlots

\* the byte of the cell array at page offset p
EncodeCellByte(n, p) ==
    IF n.kind = "Internal"
    THEN LET i == (p - CellsOffset) \div KeyCellSize
             j == (p - CellsOffset) % KeyCellSize
         IN  IF j < 4 THEN ByteOf(n.cells[i].key, j)
             ELSE ByteOf(n.cells[i].page_id, j - 4)
    ELSE LET i == (p - CellsOffset) \div LeafCellSize
             j == (p - CellsOffset) % LeafCellSize
             bytes == EncodeRow(n.data_cells[i])
         IN  IF j < Len(bytes) THEN bytes[j + 1] ELSE 0

\* the page layout: kind tag, free-slot flags, padding, directory, cells
encode(n) ==
    [p \in PageIndex |->
        IF p = 0 THEN (IF n.kind = "Internal" THEN 0 ELSE 1)
        ELSE IF p < FlagsOffset + SlotsOf(n)
             THEN (IF n.freecells[p - FlagsOffset] THEN 1 ELSE 0)
        ELSE IF p < PointersOffset THEN 0
        ELSE IF p < PointersOffset + SlotsOf(n) THEN n.pointers[p - PointersOffset]
        ELSE IF p < CellsOffset THEN 0
        ELSE EncodeCellByte(n, p)]

\* ------------------------------------------------------------ inputs

\* an Internal node with n occupied cells, keys k, k+1, .. in slot order
InternalNode(n, k) ==
    [kind      |-> "Internal",
     freecells |-> [i \in 0 .. (InternalSlots - 1) |-> i < n],
     pointers  |-> [i \in 0 .. (InternalSlots - 1) |-> IF i < n THEN i ELSE 0],
     cells     |-> [i \in 0 .. (InternalSlots - 1) |->
                       IF i < n THEN [key |-> k + i, page_id |-> i + 1]
                       ELSE [key |-> 0, page_id |-> 0]]]

\* a Leaf node with n occupied cells, rows (k, "1"), (k+1, "1"), ..
LeafNode(n, k) ==
    [kind       |-> "Leaf",
     freecells  |-> [i \in 0 .. (LeafSlots - 1) |-> i < n],
     pointers   |-> [i \in 0 .. (LeafSlots - 1) |-> IF i < n THEN i ELSE 0],
     data_cells |-> [i \in 0 .. (LeafSlots - 1) |->
                       IF i < n THEN <<IntegerValue(k + i), TextValue(<<AsciiOne>>)>>
                       ELSE <<>>]]

\* well-formed BTreeNode values, both kinds
Nodes ==
    {InternalNode(n, k) : n \in 0 .. MaxCells, k \in 0 .. MaxKey}
        \cup {LeafNode(n, k) : n \in 0 .. MaxCells, k \in 0 .. MaxKey}

NoNode == [kind |-> "None"]

NoResult == [kind |-> "None"]

\* let mut page = [0; 4096]
ZeroPage == [p \in PageIndex |-> 0]

\* byte values written into sampled pages
SampleBytes == {0, 1, 2, AsciiZero, AsciiOne, 127}

\* kind tag bytes of sampled pages
TagBytes == {0, 1, 2, AsciiZero, AsciiOne}

\* page offsets patched in sampled pages: flags, padding, directory, cells
PatchOffsets == {1, 64, 65, 256, 257, PointersOffset, CellsOffset, CellsOffset + 7}

\* a page filled with one byte, with a kind tag and one other byte set
RawPage(fill, tag, pos, b) ==
    [p \in PageIndex |-> IF p = 0 THEN tag ELSE IF p = pos THEN b ELSE fill]

RawPages ==
    {RawPage(fill, tag, pos, b) :
        fill \in {0, 1, AsciiZero, AsciiOne}, tag \in TagBytes,
        pos \in PatchOffsets, b \in SampleBytes}

\* ------------------------------------------------------------ state machine

\* no line has been read
NoShape == [kind |-> "None"]

\* no call has been made
NoCall == [op |-> "None"]

\* HashMap::new()
EmptyTables == [n \in {} |-> NoNode]

\* the parser is not in use
ParserIdle == shape = NoShape /\ line = <<>> /\ parserInput = <<>> /\ cmd = NoResult

\* StorageManager::new(), nothing called yet
StorageIdle == tables = EmptyTables /\ call = NoCall /\ ret = NoResult

\* nothing has been printed
NoOutput == [kind |-> "None"]

\* main is not running
ReplIdle == replPc = "off" /\ stdout = NoOutput

Init ==
    /\ \/ node \in Nodes /\ page = ZeroPage
       \/ node = NoNode /\ page \in RawPages
    /\ result = NoResult
    /\ pc = "start"
    /\ ParserIdle
    /\ StorageIdle
    /\ ReplIdle

\* encode an in-memory node into the page buffer
Encode ==
    /\ pc = "start"
    /\ node # NoNode
    /\ page' = encode(node)
    /\ pc' = "encoded"
    /\ UNCHANGED <<node, result>>
    /\ UNCHANGED <<parserVars, storageVars, replVars>>

\* BTreeNode::read on the page buffer
Decode ==
    /\ pc \in {"start", "encoded"}
    /\ result' = read(page)
    /\ pc' = IF pc = "encoded" THEN "read_back" ELSE "read_raw"
    /\ UNCHANGED <<node, page>>
    /\ UNCHANGED <<parserVars, storageVars, replVars>>

Next == Encode \/ Decode

Spec == Init /\ [][Next]_vars

\* ------------------------------------------------------------ properties

\* the error value the node codec is said to return on a malformed page
CorruptPage == [kind |-> "Err", error |-> "CorruptPage"]

\* the kind tag is neither 0x00 nor 0x01, or a free-slot flag of the node
\* kind the tag names is neither 0x00 nor 0x01
BadTagOrFlag(input) ==
    \/ input[0] \notin {0, 1}
    \/ /\ input[0] = 0
       /\ \E i \in 0 .. (InternalSlots - 1) : input[FlagsOffset + i] \notin {0, 1}
    \/ /\ input[0] = 1
       /\ \E i \in 0 .. (LeafSlots - 1) : input[FlagsOffset + i] \notin {0, 1}

\* C6: decoding the encoding of a well-formed node, Internal or Leaf, gives
\* back that node: decode(encode(node)) = node.
RoundTrip == pc = "read_back" => result = node

\* C7: decoding a page whose kind tag is neither 0x00 nor 0x01, or one of
\* whose free-slot flags is neither 0x00 nor 0x01, returns the error value
\* CorruptPage to the caller; it does not panic.
DecodeFailsWithCorruptPage ==
    (pc = "read_raw" /\ BadTagOrFlag(page)) => result = CorruptPage

\* No page decodes to a Leaf: the b'1' arm of read builds no node.
ReadNeverYieldsLeaf == pc \in {"read_back", "read_raw"} => result.kind # "Leaf"

\* A malformed page makes read panic; no error value exists.
ReadPanicsOnBadTag ==
    (pc \in {"read_back", "read_raw"} /\ page[0] \notin {AsciiZero, AsciiOne})
        => result = Panic("Invalid enum flag")

\* the fields of an Internal node as the page layout gives them, with the
\* byte `occupied` as the flag of an occupied slot
InternalFieldsFrom(input, n, occupied) ==
    /\ n.kind = "Internal"
    /\ \A i \in 0 .. (InternalSlots - 1) :
          /\ n.freecells[i] = (input[FlagsOffset + i] = occupied)
          /\ n.pointers[i] = input[PointersOffset + i]
          /\ n.cells[i].key = BigEndianU32(input, CellsOffset + KeyCellSize * i)
          /\ n.cells[i].page_id = BigEndianU32(input, CellsOffset + KeyCellSize * i + 4)

\* C23: a page whose byte 0 is 0x00 decodes to an Internal node whose 256
\* free-slot flags come from bytes 1..257 (0x00 = free, 0x01 = occupied),
\* whose slot directory is bytes 1792..2048 and whose cell i has the
\* big-endian u32 of bytes 2048+8i.. as key and of bytes 2052+8i.. as child
\* page id; a page whose byte 0 is 0x01 decodes to a Leaf.
InternalDecodeFollowsLayout ==
    pc \in {"read_back", "read_raw"} =>
        /\ (/\ page[0] = 0
            /\ \A i \in 0 .. (InternalSlots - 1) : page[FlagsOffset + i] \in {0, 1})
              => InternalFieldsFrom(page, result, 1)
        /\ page[0] = 1 => result.kind = "Leaf"

\* With the ASCII digits '0' and '1' as kind tag and flags, the Internal arm
\* of read follows the byte layout.
AsciiInternalDecodeFollowsLayout ==
    (/\ pc \in {"read_back", "read_raw"}
     /\ page[0] = AsciiZero
     /\ \A i \in 0 .. (InternalSlots - 1) : page[FlagsOffset + i] \in {AsciiZero, AsciiOne})
        => InternalFieldsFrom(page, result, AsciiOne)

\* an all-'0' page with one flag '1' and one directory or cell byte set has
\* been decoded to an Internal node
AsciiInternalDecoded ==
    /\ pc = "read_raw"
    /\ page[0] = AsciiZero
    /\ page[FlagsOffset] = AsciiOne
    /\ result.kind = "Internal"
    /\ result.freecells[0]

\* ------------------------------------------------------------ storage manager

\* largest number of rows held by one table
MaxRows == 2

\* DBValue::val_to_type
val_to_type(v) == IF v.type = "Integer" THEN "Integer" ELSE "Text"

RECURSIVE ZipTypesEqual(_, _, _)
\* for (t1, t2) in schema.iter().map(|(_, t)| t).zip(columns): stops at the shorter
ZipTypesEqual(schema, columns, i) ==
    IF i > Len(schema) \/ i > Len(columns) THEN TRUE
    ELSE IF schema[i][2] # columns[i] THEN FALSE
    ELSE ZipTypesEqual(schema, columns, i + 1)

\* type_check without the length comparison of lines 61-63
type_check_no_length(schema, columns) == ZipTypesEqual(schema, columns, 1)

\* Schema::type_check: TRUE for Some(()), FALSE for None
type_check(schema, columns) ==
    IF Len(columns) # Len(schema) THEN FALSE
    ELSE ZipTypesEqual(schema, columns, 1)

RECURSIVE Position(_, _, _)
\* self.schema.iter().position(|(f, _)| f == &col): 0 when there is none
Position(schema, col, i) ==
    IF i > Len(schema) THEN 0
    ELSE IF schema[i][1] = col THEN i
    ELSE Position(schema, col, i + 1)

\* get_column_indices that pushes the index of the first requested column
\* for every requested column
get_column_indices_first(schema, columns) ==
    IF \E j \in 1 .. Len(columns) : Position(schema, columns[j], 1) = 0
    THEN [some |-> FALSE, indices |-> <<>>]
    ELSE [some |-> TRUE,
          indices |-> [j \in 1 .. Len(columns) |-> Position(schema, columns[1], 1)]]

\* Schema::get_column_indices: None as [some |-> FALSE]
get_column_indices(schema, columns) ==
    IF \E j \in 1 .. Len(columns) : Position(schema, columns[j], 1) = 0
    THEN [some |-> FALSE, indices |-> <<>>]
    ELSE [some |-> TRUE,
          indices |-> [j \in 1 .. Len(columns) |-> Position(schema, columns[j], 1)]]

\* Table::new
NewTable(schema) == [schema |-> schema, rows |-> <<>>]

\* Result<_, StorageError>
StorageOk == [kind |-> "Ok"]

StorageErr(e) == [kind |-> "Err", error |-> e]

\* create_table without the lookup of lines 37-39
contains_key_never(name) == FALSE

\* self.tables.contains_key(&name)
contains_key(name) == name \in DOMAIN tables

\* HashMap::insert: the entry for the key is set, present or not
HashMapInsert(map, name, table) ==
    [n \in (DOMAIN map) \cup {name} |-> IF n = name THEN table ELSE map[n]]

\* table names, schemas, rows and column lists the calls are made with
TableNames == {"t", "u"}

Schemas ==
    { << <<"a", "Integer">> >>,
      << <<"a", "Integer">>, <<"b", "Text">> >>,
      << <<"b", "Text">>, <<"a", "Integer">> >> }

InputRows ==
    { <<IntegerValue(0)>>,
      <<TextValue(<<"x">>)>>,
      <<IntegerValue(1), TextValue(<<"x">>)>>,
      <<IntegerValue(2), TextValue(<<"z">>)>>,
      <<TextValue(<<"y">>), IntegerValue(0)>>,
      <<IntegerValue(1), TextValue(<<"x">>), IntegerValue(0)>> }

QueryColumns == { <<"a">>, <<"b", "a">>, <<"a", "a">>, <<"c">>, <<"a", "c">> }

\* StorageManager::create_table
create_table(name, schema) ==
    /\ call' = [op |-> "create_table", name |-> name, schema |-> schema]
    /\ IF contains_key(name)
       THEN /\ ret' = StorageErr("TableNameAlreadyInUse")
            /\ UNCHANGED tables
       ELSE /\ tables' = HashMapInsert(tables, name, NewTable(schema))
            /\ ret' = StorageOk

\* StorageManager::insert_into
insert_into(table, values) ==
    /\ call' = [op |-> "insert_into", table |-> table, values |-> values]
    /\ IF table \notin DOMAIN tables
       THEN /\ ret' = StorageErr("TableNotFound")
            /\ UNCHANGED tables
       ELSE LET types == [i \in 1 .. Len(values) |-> val_to_type(values[i])]
            IN  IF ~ type_check(tables[table].schema, types)
                THEN /\ ret' = StorageErr("TypeError")
                     /\ UNCHANGED tables
                ELSE /\ tables' = [tables EXCEPT ![table].rows = Append(@, values)]
                     /\ ret' = StorageOk

\* StorageManager::query on Statement::Select { columns, table, .. }
query(table, columns) ==
    /\ call' = [op |-> "query", table |-> table, columns |-> columns]
    /\ UNCHANGED tables
    /\ IF table \notin DOMAIN tables
       THEN ret' = StorageErr("TableNotFound")
       ELSE LET found == get_column_indices(tables[table].schema, columns)
                rows == tables[table].rows
            IN  IF ~ found.some
                THEN ret' = StorageErr("SchemaMismatch")
                ELSE ret' = [kind |-> "Ok",
                             rows |-> [r \in 1 .. Len(rows) |->
                                          [j \in 1 .. Len(found.indices) |->
                                              rows[r][found.indices[j]]]]]

\* the codec is not in use
CodecIdle == node = NoNode /\ page = <<>> /\ result = NoResult /\ pc = "idle"

StorageInit == CodecIdle /\ ParserIdle /\ StorageIdle /\ ReplIdle

CreateTable ==
    /\ \E name \in TableNames, schema \in Schemas : create_table(name, schema)
    /\ UNCHANGED <<codecVars, parserVars, replVars>>

InsertInto ==
    /\ \E table \in TableNames, values \in InputRows :
          /\ table \in DOMAIN tables => Len(tables[table].rows) < MaxRows
          /\ insert_into(table, values)
    /\ UNCHANGED <<codecVars, parserVars, replVars>>

Query ==
    /\ \E table \in TableNames, columns \in QueryColumns : query(table, columns)
    /\ UNCHANGED <<codecVars, parserVars, replVars>>

StorageNext == CreateTable \/ InsertInto \/ Query

StorageSpec == StorageInit /\ [][StorageNext]_vars

\* the value types of a row equal the schema's column types in count and order
RowMatchesSchema(values, schema) ==
    /\ Len(values) = Len(schema)
    /\ \A i \in 1 .. Len(values) : values[i].type = schema[i][2]

\* C12: insert_into appends the row to the named table if and only if the
\* table exists and the row's value types equal the schema's column types in
\* count and order; otherwise it returns TableNotFound or TypeError
\* respectively and leaves every table's rows unchanged.
InsertIntoTypeChecked ==
    [][call'.op = "insert_into" =>
          LET t == call'.table
              v == call'.values
          IN  IF t \notin DOMAIN tables
              THEN ret' = StorageErr("TableNotFound") /\ tables' = tables
              ELSE IF ~ RowMatchesSchema(v, tables[t].schema)
              THEN ret' = StorageErr("TypeError") /\ tables' = tables
              ELSE /\ ret' = StorageOk
                   /\ DOMAIN tables' = DOMAIN tables
                   /\ tables'[t].rows = Append(tables[t].rows, v)
                   /\ \A n \in DOMAIN tables : n # t => tables'[n] = tables[n]]_vars

\* a type-checked row has been appended behind an earlier one
InsertIntoAppended ==
    /\ call.op = "insert_into"
    /\ ret = StorageOk
    /\ Len(tables[call.table].rows) = 2
    /\ tables[call.table].rows[2] = call.values

\* C13: a table's schema never changes once the table is created: no
\* insert_into, query or failed create_table changes the column names,
\* column types or column order of an existing table.
SchemaImmutable ==
    [][\A n \in DOMAIN tables :
          n \in DOMAIN tables' /\ tables'[n].schema = tables[n].schema]_vars

\* create_table was refused for an existing table that holds rows and has
\* another schema than the one requested
CreateTableRefused ==
    /\ call.op = "create_table"
    /\ ret = StorageErr("TableNameAlreadyInUse")
    /\ tables[call.name].schema # call.schema
    /\ tables[call.name].rows # <<>>

\* the rows of the later table begin with the rows of the earlier one
RowsExtend(earlier, later) ==
    /\ Len(later) >= Len(earlier)
    /\ SubSeq(later, 1, Len(earlier)) = earlier

\* C25: table names are unique in the registry: create_table on a name that
\* already exists returns TableNameAlreadyInUse and leaves the existing
\* table's schema and rows unchanged, and a name keeps the table made by the
\* first successful create for it: create_table succeeds only for a name not
\* yet in the registry, and no step removes a table, changes its schema or
\* drops its rows.
TableNamesUnique ==
    [][/\ (call'.op = "create_table" /\ call'.name \in DOMAIN tables)
             => (ret' = StorageErr("TableNameAlreadyInUse") /\ tables' = tables)
       /\ (call'.op = "create_table" /\ call'.name \notin DOMAIN tables)
             => /\ ret' = StorageOk
                /\ DOMAIN tables' = DOMAIN tables \cup {call'.name}
                /\ tables'[call'.name] = NewTable(call'.schema)
                /\ \A n \in DOMAIN tables : tables'[n] = tables[n]
       /\ \A n \in DOMAIN tables :
             /\ n \in DOMAIN tables'
             /\ tables'[n].schema = tables[n].schema
             /\ RowsExtend(tables[n].rows, tables'[n].rows)]_vars

\* create_table was refused for a name whose table was made with another
\* schema and has two rows, while a second table exists
CreateTableTwiceRefused ==
    /\ call.op = "create_table"
    /\ ret = StorageErr("TableNameAlreadyInUse")
    /\ DOMAIN tables = TableNames
    /\ tables[call.name].schema # call.schema
    /\ Len(tables[call.name].rows) = 2

\* the column is one of the schema's column names
InSchema(schema, col) == \E i \in 1 .. Len(schema) : schema[i][1] = col

\* C26: query on a Select statement returns exactly one result row per row
\* stored in the named table, in insertion order, each projected onto the
\* requested columns in the requested order; it returns TableNotFound for an
\* unknown table and SchemaMismatch if any requested column is not in the
\* schema, and it never modifies the table.
QueryProjects ==
    [][call'.op = "query" =>
          LET t    == call'.table
              cols == call'.columns
          IN  /\ tables' = tables
              /\ IF t \notin DOMAIN tables
                 THEN ret' = StorageErr("TableNotFound")
                 ELSE IF \E j \in 1 .. Len(cols) : ~ InSchema(tables[t].schema, cols[j])
                 THEN ret' = StorageErr("SchemaMismatch")
                 ELSE /\ ret'.kind = "Ok"
                      /\ Len(ret'.rows) = Len(tables[t].rows)
                      /\ \A r \in 1 .. Len(tables[t].rows) :
                            /\ Len(ret'.rows[r]) = Len(cols)
                            /\ \A j \in 1 .. Len(cols) :
                                  \E i \in 1 .. Len(tables[t].schema) :
                                     /\ tables[t].schema[i][1] = cols[j]
                                     /\ ret'.rows[r][j] = tables[t].rows[r][i]]_vars

\* a query for (b, a) on a table with columns (a, b) and two different rows
\* returned both rows, each with its two values swapped
QueryReordered ==
    /\ call.op = "query"
    /\ call.columns = <<"b", "a">>
    /\ ret.kind = "Ok"
    /\ call.table \in DOMAIN tables
    /\ tables[call.table].schema = << <<"a", "Integer">>, <<"b", "Text">> >>
    /\ Len(tables[call.table].rows) = 2
    /\ tables[call.table].rows[1] # tables[call.table].rows[2]
    /\ ret.rows = [r \in 1 .. 2 |->
                     <<tables[call.table].rows[r][2], tables[call.table].rows[r][1]>>]

\* ------------------------------------------------------------ parser: lexing

\* strings are sequences of one-character strings

\* char::is_whitespace, for the characters that occur in a line
Whitespace == {" ", "\t", "\n"}

\* char::is_ascii_digit
Digits == {"0", "1", "2", "3", "4", "5", "6", "7", "8", "9"}

\* char::is_ascii_alphabetic
Letters ==
    {"a", "b", "c", "d", "e", "f", "g", "h", "i", "j", "k", "l", "m",
     "n", "o", "p", "q", "r", "s", "t", "u", "v", "w", "x", "y", "z",
     "A", "B", "C", "D", "E", "F", "G", "H", "I", "J", "K", "L", "M",
     "N", "O", "P", "Q", "R", "S", "T", "U", "V", "W", "X", "Y", "Z"}

\* c.is_ascii_alphanumeric() || c == '_'
IdentifierTail == Letters \cup Digits \cup {"_"}

\* the single quote that delimits a text
Quote == "'"

\* str::split_at(n).1
Drop(s, n) == SubSeq(s, n + 1, Len(s))

\* chars().take_while(|c| c in set).count()
TakeWhileIn(s, set) ==
    IF \A i \in 1 .. Len(s) : s[i] \in set THEN Len(s)
    ELSE (CHOOSE i \in 1 .. Len(s) :
             s[i] \notin set /\ \A j \in 1 .. (i - 1) : s[j] \in set) - 1

\* chars().take_while(|&c| c != ch).count()
TakeWhileNot(s, ch) ==
    IF \A i \in 1 .. Len(s) : s[i] # ch THEN Len(s)
    ELSE (CHOOSE i \in 1 .. Len(s) :
             s[i] = ch /\ \A j \in 1 .. (i - 1) : s[j] # ch) - 1

\* str::starts_with
StartsWith(s, string) ==
    Len(s) >= Len(string) /\ SubSeq(s, 1, Len(string)) = string

\* ParseResult<T> together with the input the parser is left with
Ok(v, rest) == [ok |-> TRUE, val |-> v, err |-> "", rest |-> rest]

Err(e, rest) == [ok |-> FALSE, val |-> <<>>, err |-> e, rest |-> rest]

\* char_to_i64
char_to_i64(c) ==
    CASE c = "0" -> 0 [] c = "1" -> 1 [] c = "2" -> 2 [] c = "3" -> 3
      [] c = "4" -> 4 [] c = "5" -> 5 [] c = "6" -> 6 [] c = "7" -> 7
      [] c = "8" -> 8 [] c = "9" -> 9

RECURSIVE Pow10(_)
\* 10_i64.pow(i)
Pow10(i) == IF i = 0 THEN 1 ELSE 10 * Pow10(i - 1)

RECURSIVE StrToI64From(_, _, _)
\* the loop of str_to_i64 over input.chars().rev().enumerate(), from index i
StrToI64From(s, i, val) ==
    IF i >= Len(s) THEN val
    ELSE LET c == s[Len(s) - i]
         IN  IF c \in Digits
             THEN StrToI64From(s, i + 1, val + char_to_i64(c) * Pow10(i))
             ELSE StrToI64From(s, i + 1, 0 - val)

\* str_to_i64, on the digit strings the integer parsers pass to it
str_to_i64(s) == StrToI64From(s, 0, 0)

\* Parser::skip_whitespace
skip_whitespace(s) == Drop(s, TakeWhileIn(s, Whitespace))

\* Parser::lex_string
lex_string(s, string) ==
    LET t == skip_whitespace(s)
    IN  IF StartsWith(t, string) THEN Ok(<<>>, Drop(t, Len(string)))
        ELSE IF t = <<>> THEN Err("EndOfInput", t)
        ELSE Err("FailedToLex", t)

\* Parser::lex_identifier
lex_identifier(s) ==
    LET t == skip_whitespace(s)
    IN  IF t = <<>> THEN Err("EndOfInput", t)
        ELSE IF t[1] \in Letters
        THEN LET count == 1 + TakeWhileIn(Tail(t), IdentifierTail)
             IN  Ok(SubSeq(t, 1, count), Drop(t, count))
        ELSE Err("InvalidIdentifier", t)

\* Parser::parse_text
parse_text(s) ==
    IF s = <<>> THEN Err("EndOfInput", s)
    ELSE IF s[1] = Quote
    THEN LET count == 1 + TakeWhileNot(Tail(s), Quote)
         IN  IF Len(s) > count
             THEN Ok(SubSeq(s, 2, count), Drop(s, count + 1))
             ELSE Err("RunawayText", s)
    ELSE Err("FailedToLex", s)

\* Parser::parse_positive_integer
parse_positive_integer(s) ==
    LET count == TakeWhileIn(s, Digits)
    IN  IF count > 0 THEN Ok(str_to_i64(SubSeq(s, 1, count)), Drop(s, count))
        ELSE Err("FailedToLex", s)

\* Parser::parse_negative_integer
parse_negative_integer(s) ==
    IF s = <<>> THEN Err("EndOfInput", s)
    ELSE IF s[1] = "-"
    THEN LET count == TakeWhileIn(Tail(s), Digits)
         IN  IF count > 0
             THEN Ok(str_to_i64(SubSeq(s, 1, count + 1)), Drop(s, count + 1))
             ELSE Err("FailedToLex", s)
    ELSE Err("FailedToLex", s)

\* ------------------------------------------------------------ parser: statements

\* Every step of a parse function is an operator that takes the result of the
\* step before it, so that a result is computed once: `?` is the test of .ok.

\* todo!() unwinds; it is carried as an error no caller on its way maps or ignores
Unwound == "Panic"

\* ignore_fail that lets every error through to the next alternative
ignore_fail_any(e) == TRUE

\* ParseError::ignore_fail followed by `?`: TRUE when the closure goes on
ignore_fail(e) == e = "FailedToLex"

\* .map_err(|_| e)
MapErr(r, e) == IF r.ok THEN r ELSE Err(e, r.rest)

\* parse_integer: .or_else(|_| self.parse_negative_integer())
OrNegativeInteger(p) == IF p.ok THEN p ELSE parse_negative_integer(p.rest)

\* Parser::parse_integer
parse_integer(s) == OrNegativeInteger(parse_positive_integer(s))

\* lex_value: .map(|text| DBValue::Text(text))
ValueOfText(t) == IF t.ok THEN Ok(TextValue(t.val), t.rest) ELSE t

\* lex_value: .map(|int| DBValue::Integer(int)).or_else(|e| { e.ignore_fail()?; .. })
ValueOfInteger(i) ==
    IF i.ok THEN Ok(IntegerValue(i.val), i.rest)
    ELSE IF ignore_fail(i.err) THEN ValueOfText(parse_text(i.rest))
    ELSE i

\* Parser::lex_value
lex_value(s) == ValueOfInteger(parse_integer(skip_whitespace(s)))

\* Parser::parse_condition
parse_condition(s) == Err(Unwound, s)

\* Parser::parse_semicolon
parse_semicolon(s) == MapErr(lex_string(s, <<";">>), "MissingSemicolon")

\* Parser::parse_left_paren
parse_left_paren(s) == MapErr(lex_string(s, <<"(">>), "MissingLParen")

\* parse_right_paren: if let Ok(_) = self.lex_identifier()
MissingCommaOrRParen(id) ==
    Err(IF id.ok THEN "MissingComma" ELSE "MissingRParen", id.rest)

\* parse_right_paren: .map_err(|_| ..)
RightParenResult(r) ==
    IF r.ok THEN r ELSE MissingCommaOrRParen(lex_identifier(r.rest))

\* Parser::parse_right_paren
parse_right_paren(s) == RightParenResult(lex_string(s, <<")">>))

\* parse_db_type: .or_else(|_| self.lex_string("text").map(|_| DBType::Text)).map_err(..)
DbTypeText(b) ==
    IF b.ok THEN Ok("Text", b.rest)
    ELSE Err(IF b.err = "EndOfInput" THEN "MissingType" ELSE "UnrecognizedType", b.rest)

\* parse_db_type: self.lex_string("integer").map(|_| DBType::Integer)
DbTypeInteger(a) ==
    IF a.ok THEN Ok("Integer", a.rest) ELSE DbTypeText(lex_string(a.rest, <<"t", "e", "x", "t">>))

\* Parser::parse_db_type
parse_db_type(s) == DbTypeInteger(lex_string(s, <<"i", "n", "t", "e", "g", "e", "r">>))

\* parse_column_pairs: columns.push((ident, db_type))
PairResult(ident, ty) == IF ty.ok THEN Ok(<<ident, ty.val>>, ty.rest) ELSE ty

\* parse_column_pairs: let db_type = self.parse_db_type()?;
PairType(id) == IF ~ id.ok THEN id ELSE PairResult(id.val, parse_db_type(id.rest))

\* parse_column_pairs: let ident = self.lex_identifier()?; and its type
ColumnPair(s) == PairType(lex_identifier(s))

\* the element parser of parse_columns, parse_column_pairs and parse_values
ListItem(kind, s) ==
    IF kind = "columns" THEN lex_identifier(s)
    ELSE IF kind = "column_pairs" THEN ColumnPair(s)
    ELSE lex_value(s)

RECURSIVE ListLoop(_, _, _), ListComma(_, _, _), ListNext(_, _, _)
\* the loop body: let ident = ..?; columns.push(ident);
ListNext(kind, item, columns) ==
    IF item.ok THEN ListLoop(kind, item.rest, Append(columns, item.val)) ELSE item

\* the loop condition: while let Ok(_) = self.lex_string(",")
ListComma(kind, r, columns) ==
    IF ~ r.ok THEN Ok(columns, r.rest)
    ELSE ListNext(kind, ListItem(kind, r.rest), columns)

\* the while loop of parse_columns, parse_column_pairs and parse_values
ListLoop(kind, s, columns) == ListComma(kind, lex_string(s, <<",">>), columns)

\* Ok(columns)
ListResult(columns, rp) == IF rp.ok THEN Ok(columns, rp.rest) ELSE rp

\* self.parse_right_paren()?;
ListClose(columns) ==
    IF ~ columns.ok THEN columns
    ELSE ListResult(columns.val, parse_right_paren(columns.rest))

\* let mut columns = vec![ident]; and the loop
ListRest(kind, item) ==
    IF ~ item.ok THEN item ELSE ListClose(ListLoop(kind, item.rest, <<item.val>>))

\* self.parse_left_paren()?; and the first element
ListFirst(kind, lp) == IF ~ lp.ok THEN lp ELSE ListRest(kind, ListItem(kind, lp.rest))

\* the common body of parse_columns, parse_column_pairs and parse_values
ParenList(kind, s) == ListFirst(kind, parse_left_paren(s))

\* Parser::parse_columns
parse_columns(s) == ParenList("columns", s)

\* Parser::parse_column_pairs
parse_column_pairs(s) == ParenList("column_pairs", s)

\* Parser::parse_values
parse_values(s) == ParenList("values", s)

\* parse_select: the `where` clause and Ok(Statement::Select { .. })
SelectResult(columns, table, wh) ==
    IF wh.ok THEN parse_condition(wh.rest)
    ELSE Ok([stmt |-> "Select", columns |-> columns, table |-> table], wh.rest)

\* parse_select: let table = self.lex_identifier()?;
SelectWhere(columns, tb) ==
    IF ~ tb.ok THEN tb ELSE SelectResult(columns, tb.val, lex_string(tb.rest, <<"w", "h", "e", "r", "e">>))

\* parse_select: self.lex_string("from").map_err(|_| ParseError::MissingFrom)?;
SelectTable(columns, fr) ==
    IF ~ fr.ok THEN fr ELSE SelectWhere(columns, lex_identifier(fr.rest))

\* parse_select: let columns = self.parse_columns()?;
SelectFrom(cols) ==
    IF ~ cols.ok THEN cols
    ELSE SelectTable(cols.val, MapErr(lex_string(cols.rest, <<"f", "r", "o", "m">>), "MissingFrom"))

\* parse_select: self.lex_string("select")?;
SelectColumns(kw) == IF ~ kw.ok THEN kw ELSE SelectFrom(parse_columns(kw.rest))

\* Parser::parse_select
parse_select(s) == SelectColumns(lex_string(s, <<"s", "e", "l", "e", "c", "t">>))

\* parse_create_table: Ok(Statement::CreateTable { table, columns })
CreateTableResult(table, cols) ==
    IF ~ cols.ok THEN cols
    ELSE Ok([stmt |-> "CreateTable", table |-> table, columns |-> cols.val], cols.rest)

\* parse_create_table: let table = self.lex_identifier()?;
CreateTableColumns(tb) ==
    IF ~ tb.ok THEN tb ELSE CreateTableResult(tb.val, parse_column_pairs(tb.rest))

\* parse_create_table: self.lex_string("table")?;
CreateTableName(kw2) == IF ~ kw2.ok THEN kw2 ELSE CreateTableColumns(lex_identifier(kw2.rest))

\* parse_create_table: self.lex_string("create")?;
CreateTableKeyword(kw1) ==
    IF ~ kw1.ok THEN kw1 ELSE CreateTableName(lex_string(kw1.rest, <<"t", "a", "b", "l", "e">>))

\* Parser::parse_create_table
parse_create_table(s) == CreateTableKeyword(lex_string(s, <<"c", "r", "e", "a", "t", "e">>))

\* the closure without its FailedToLex case
InvalidValueOr_unmapped(e) == e

\* the map_err closure of parse_insert_into: FailedToLex becomes InvalidValue
InvalidValueOr(e) == IF e = "FailedToLex" THEN "InvalidValue" ELSE e

\* parse_insert_into: Ok(Statement::InsertInto { table, values })
InsertIntoResult(table, vals) ==
    IF ~ vals.ok THEN Err(InvalidValueOr(vals.err), vals.rest)
    ELSE Ok([stmt |-> "InsertInto", table |-> table, values |-> vals.val], vals.rest)

\* parse_insert_into: self.lex_string("values")?;
InsertIntoValues(table, kw3) ==
    IF ~ kw3.ok THEN kw3 ELSE InsertIntoResult(table, parse_values(kw3.rest))

\* parse_insert_into: let table = self.lex_identifier()?;
InsertIntoKeyword(tb) ==
    IF ~ tb.ok THEN tb ELSE InsertIntoValues(tb.val, lex_string(tb.rest, <<"v", "a", "l", "u", "e", "s">>))

\* parse_insert_into: self.lex_string("into")?;
InsertIntoName(kw2) == IF ~ kw2.ok THEN kw2 ELSE InsertIntoKeyword(lex_identifier(kw2.rest))

\* parse_insert_into: self.lex_string("insert")?;
InsertIntoInto(kw1) == IF ~ kw1.ok THEN kw1 ELSE InsertIntoName(lex_string(kw1.rest, <<"i", "n", "t", "o">>))

\* Parser::parse_insert_into
parse_insert_into(s) == InsertIntoInto(lex_string(s, <<"i", "n", "s", "e", "r", "t">>))

\* parse_statement: .or_else(|e| { e.ignore_fail()?; self.parse_create_table() })
OrCreateTable(a) ==
    IF a.ok THEN a
    ELSE IF ignore_fail(a.err) THEN parse_create_table(a.rest) ELSE a

\* parse_statement: .or_else(|e| { e.ignore_fail()?; self.parse_insert_into() })
OrInsertInto(b) ==
    IF b.ok THEN b
    ELSE IF ignore_fail(b.err) THEN parse_insert_into(b.rest) ELSE b

\* parse_statement: .or_else(|e| { e.ignore_fail()?; Err(UnrecognizedStatement) })
OrUnrecognizedStatement(c) ==
    IF c.ok THEN c
    ELSE IF ignore_fail(c.err) THEN Err("UnrecognizedStatement", c.rest) ELSE c

\* the three alternatives of parse_statement, before the semicolon
StatementAlternatives(s) ==
    OrUnrecognizedStatement(OrInsertInto(OrCreateTable(parse_select(s))))

\* parse_statement: self.parse_semicolon()?; Ok(stmt)
StatementResult(stmt, semi) == IF semi.ok THEN Ok(stmt, semi.rest) ELSE semi

\* parse_statement: the `?` behind the alternatives
StatementSemicolon(stmt) ==
    IF ~ stmt.ok THEN stmt ELSE StatementResult(stmt.val, parse_semicolon(stmt.rest))

\* Parser::parse_statement
parse_statement(s) == StatementSemicolon(StatementAlternatives(s))

\* parse_meta_command: self.lex_string("print").map(|_| MetaCommand::Print), map_err
MetaPrint(pr) ==
    IF pr.ok THEN Ok("Print", pr.rest) ELSE Err("UnrecognizedMetaCommand", pr.rest)

\* parse_meta_command: self.lex_string("exit").map(|_| MetaCommand::Exit).or_else(..)
MetaExit(ex) ==
    IF ex.ok THEN Ok("Exit", ex.rest)
    ELSE IF ~ ignore_fail(ex.err) THEN Err("UnrecognizedMetaCommand", ex.rest)
    ELSE MetaPrint(lex_string(ex.rest, <<"p", "r", "i", "n", "t">>))

\* parse_meta_command: self.lex_string(".")?;
MetaDot(dot) == IF ~ dot.ok THEN dot ELSE MetaExit(lex_string(dot.rest, <<"e", "x", "i", "t">>))

\* Parser::parse_meta_command
parse_meta_command(s) == MetaDot(lex_string(s, <<".">>))

\* parse_command: self.parse_statement().map(|stmt| Command::Statement(stmt))
CommandOfStatement(stmt) ==
    IF stmt.ok THEN Ok([command |-> "Statement", statement |-> stmt.val], stmt.rest)
    ELSE stmt

\* parse_command: .map(|cmd| Command::MetaCommand(cmd)).or_else(..)
CommandOfMeta(meta) ==
    IF meta.ok THEN Ok([command |-> "MetaCommand", meta |-> meta.val], meta.rest)
    ELSE IF ~ ignore_fail(meta.err) THEN meta
    ELSE CommandOfStatement(parse_statement(meta.rest))

\* Parser::parse_command
parse_command(s) == CommandOfMeta(parse_meta_command(s))

\* ------------------------------------------------------------ parser: lines

\* A line is put together from a leading blank, a statement head, a table
\* name, the text after the opening parenthesis and what follows the statement.
\* Each piece carries what it is: a table name that is an identifier ("ok") or
\* starts with a character that is no letter ("bad"); a list that is complete
\* ("ok"), has a non-letter where a column name is expected ("bad_ident"), has
\* a character that starts no value where a value is expected ("bad_value"),
\* ends where a value is expected ("eof_value"), opens a text it never closes
\* ("runaway"), or is wrong in another way ("other").

Leads == { <<>>, <<" ">> }

TableTexts ==
    { [text |-> <<"t">>, class |-> "ok"],
      [text |-> <<"t", "b", "l", "_", "1">>, class |-> "ok"],
      [text |-> <<"&">>, class |-> "bad"],
      [text |-> <<"9", "x">>, class |-> "bad"],
      [text |-> <<"_">>, class |-> "bad"] }

SelectLists ==
    { [text |-> <<"a", ")">>, class |-> "ok"],
      [text |-> <<"a", ",", " ", "b", "2", ")">>, class |-> "ok"],
      [text |-> <<"0", ")">>, class |-> "bad_ident"],
      [text |-> <<"a", ",", " ", "_", "b", ")">>, class |-> "bad_ident"],
      [text |-> <<")">>, class |-> "bad_ident"],
      [text |-> <<"a", ",", ")">>, class |-> "bad_ident"],
      [text |-> <<"a", " ", "b", ")">>, class |-> "other"],
      [text |-> <<"a">>, class |-> "other"] }

PairLists ==
    { [text |-> <<"a", " ", "i", "n", "t", "e", "g", "e", "r", ")">>, class |-> "ok"],
      [text |-> <<"a", " ", "i", "n", "t", "e", "g", "e", "r", ",", " ", "b", " ", "t", "e", "x", "t", ")">>, class |-> "ok"],
      [text |-> <<"0", " ", "i", "n", "t", "e", "g", "e", "r", ")">>, class |-> "bad_ident"],
      [text |-> <<"a", " ", "t", "e", "x", "t", ",", " ", "_", " ", "t", "e", "x", "t", ")">>, class |-> "bad_ident"],
      [text |-> <<")">>, class |-> "bad_ident"],
      [text |-> <<"a", ")">>, class |-> "other"],
      [text |-> <<"a", " ", "i", "n", "t", ")">>, class |-> "other"],
      [text |-> <<"a", " ", "t", "e", "x", "t", " ", "b", " ", "t", "e", "x", "t", ")">>, class |-> "other"],
      [text |-> <<"a", " ", "t", "e", "x", "t">>, class |-> "other"] }

ValueLists ==
    { [text |-> <<"0", ")">>, class |-> "ok"],
      [text |-> <<"-", "1", "2", ",", " ", "'", "a", " ", "b", "'", ",", " ", "'", "'", ")">>, class |-> "ok"],
      [text |-> <<"'", "x", "'", ")">>, class |-> "ok"],
      [text |-> <<"_", ")">>, class |-> "bad_value"],
      [text |-> <<")">>, class |-> "bad_value"],
      [text |-> <<"f", "o", "o", ")">>, class |-> "bad_value"],
      [text |-> <<"-", ")">>, class |-> "bad_value"],
      [text |-> <<"0", ",", " ", "_", ")">>, class |-> "bad_value"],
      [text |-> <<"'", "a", "'", ",", " ", "-", "x", ")">>, class |-> "bad_value"],
      [text |-> <<>>, class |-> "eof_value"],
      [text |-> <<"0", ",">>, class |-> "eof_value"],
      [text |-> <<"0", ",", " ">>, class |-> "eof_value"],
      [text |-> <<"'", "x">>, class |-> "runaway"],
      [text |-> <<"1", ",", " ", "'", "x", ")">>, class |-> "runaway"],
      [text |-> <<"0", " ", "1", ")">>, class |-> "other"],
      [text |-> <<"0", " ", "a", ")">>, class |-> "other"] }

Tails ==
    { [text |-> <<>>, class |-> "blank"],
      [text |-> <<" ">>, class |-> "blank"],
      [text |-> <<"\n">>, class |-> "blank"],
      [text |-> <<";">>, class |-> "semicolon"],
      [text |-> <<" ", ";">>, class |-> "semicolon"],
      [text |-> <<";", "\n">>, class |-> "semicolon"],
      [text |-> <<";", " ", "s", "e", "l", "e", "c", "t">>, class |-> "semicolon"],
      [text |-> <<" ", "w", "h", "e", "r", "e">>, class |-> "where"],
      [text |-> <<"x">>, class |-> "junk"] }

NoPiece == [text |-> <<>>, class |-> "none"]

\* lines that are no select, create table or insert into statement
RawLines ==
    { <<>>,
      <<" ">>,
      <<".", "e", "x", "i", "t">>,
      <<".", "p", "r", "i", "n", "t">>,
      <<" ", ".", "e", "x", "i", "t">>,
      <<".", "f", "o", "o">>,
      <<".">>,
      <<"d", "r", "o", "p", ";">>,
      <<"c", "r", "e", "a", "t", "e", " ", "x">>,
      <<"c", "r", "e", "a", "t", "e">>,
      <<"i", "n", "s", "e", "r", "t", " ", "t">>,
      <<"i", "n", "s", "e", "r", "t", " ", "i", "n", "t", "o", " ", "t", " ", "(", "0", ")", ";">>,
      <<"s", "e", "l", "e", "c", "t", "x">>,
      <<"c", "r", "e", "a", "t", "e", " ", "i", "n", "s", "e", "r", "t", " ", "i", "n", "t", "o", " ", "t", " ", "v", "a", "l", "u", "e", "s", " ", "(", "0", ")", ";">>,
      <<";">> }

Shapes ==
    [kind : {"select"}, lead : Leads, table : TableTexts, list : SelectLists, tail : Tails]
        \cup [kind : {"create"}, lead : Leads, table : TableTexts, list : PairLists, tail : Tails]
        \cup [kind : {"insert"}, lead : Leads, table : TableTexts, list : ValueLists, tail : Tails]
        \cup [kind : {"raw"}, lead : RawLines, table : {NoPiece}, list : {NoPiece},
              tail : {[text |-> <<>>, class |-> "blank"]}]

\* the characters of the line a shape stands for
LineOf(sh) ==
    IF sh.kind = "select"
    THEN sh.lead \o <<"s", "e", "l", "e", "c", "t", " ", "(">> \o sh.list.text \o <<" ", "f", "r", "o", "m", " ">> \o sh.table.text
             \o sh.tail.text
    ELSE IF sh.kind = "create"
    THEN sh.lead \o <<"c", "r", "e", "a", "t", "e", " ", "t", "a", "b", "l", "e", " ">> \o sh.table.text \o <<" ", "(">> \o sh.list.text
             \o sh.tail.text
    ELSE IF sh.kind = "insert"
    THEN sh.lead \o <<"i", "n", "s", "e", "r", "t", " ", "i", "n", "t", "o", " ">> \o sh.table.text \o <<" ", "v", "a", "l", "u", "e", "s", " ", "(">> \o sh.list.text
             \o sh.tail.text
    ELSE sh.lead

\* ------------------------------------------------------------ parser: state machine

\* Parser::new(&input)
ParserInit ==
    /\ shape \in Shapes
    /\ line = LineOf(shape)
    /\ parserInput = line
    /\ cmd = NoResult
    /\ CodecIdle
    /\ StorageIdle
    /\ ReplIdle

\* the ParseResult<Command> as the caller sees it
Outcome(r) ==
    IF r.ok THEN [kind |-> "Ok", command |-> r.val]
    ELSE IF r.err = Unwound THEN Panic("not yet implemented")
    ELSE [kind |-> "Err", error |-> r.err]

\* parser.parse_command()
ParseCommand ==
    /\ cmd = NoResult
    /\ shape # NoShape
    /\ \E r \in {parse_command(parserInput)} :
          /\ cmd' = Outcome(r)
          /\ parserInput' = r.rest
    /\ UNCHANGED <<shape, line, codecVars, storageVars, replVars>>

ParserNext == ParseCommand

ParserSpec == ParserInit /\ [][ParserNext]_vars

\* ------------------------------------------------------------ parser: properties

ParseErr(e) == [kind |-> "Err", error |-> e]

\* the line has been parsed
Parsed == cmd # NoResult

\* a select, create table or insert into statement with an identifier as table
\* name and a complete list
WellFormedStatement(sh) ==
    /\ sh.kind \in {"select", "create", "insert"}
    /\ sh.table.class = "ok"
    /\ sh.list.class = "ok"

\* C14: every otherwise well-formed select, create table or insert into
\* statement that is not followed by a semicolon makes parse_command return
\* Err(MissingSemicolon), and parse_command returns Ok(Command::Statement(..))
\* only when the statement is terminated by ';'.
MissingSemicolonReported ==
    /\ (Parsed /\ WellFormedStatement(shape) /\ shape.tail.class # "semicolon")
          => cmd = ParseErr("MissingSemicolon")
    /\ (Parsed /\ cmd.kind = "Ok" /\ cmd.command.command = "Statement")
          => (WellFormedStatement(shape) /\ shape.tail.class = "semicolon")

\* Without a `where` after the statement the missing semicolon is reported.
MissingSemicolonWithoutWhere ==
    /\ (Parsed /\ WellFormedStatement(shape)
          /\ shape.tail.class \notin {"semicolon", "where"})
          => cmd = ParseErr("MissingSemicolon")
    /\ (Parsed /\ WellFormedStatement(shape) /\ shape.kind # "select"
          /\ shape.tail.class = "where")
          => cmd = ParseErr("MissingSemicolon")
    /\ (Parsed /\ cmd.kind = "Ok" /\ cmd.command.command = "Statement")
          => (WellFormedStatement(shape) /\ shape.tail.class = "semicolon")

\* A select followed by `where` reaches parse_condition, which is todo!().
WhereUnwinds ==
    (Parsed /\ WellFormedStatement(shape) /\ shape.kind = "select"
        /\ shape.tail.class = "where")
        => cmd.kind = "Panic"

\* an insert into statement, up to and including the opening parenthesis
InsertHead(sh) == sh.kind = "insert" /\ sh.table.class = "ok"

\* the input ends where the value is expected
ValueAtEndOfInput(sh) == sh.list.class = "eof_value" /\ sh.tail.class = "blank"

\* a character that starts neither an integer nor a text stands where the
\* value is expected
NoValueStart(sh) ==
    \/ sh.list.class = "bad_value"
    \/ sh.list.class = "eof_value" /\ sh.tail.class # "blank"

\* C15 as stated: a value position that holds neither an integer literal nor
\* a single-quoted text makes parse_command return Err(InvalidValue).
InvalidValueReported ==
    (Parsed /\ InsertHead(shape)
        /\ (NoValueStart(shape) \/ ValueAtEndOfInput(shape)
               \/ shape.list.class = "runaway"))
        => cmd = ParseErr("InvalidValue")

\* C15, amended: a value position whose first character after whitespace
\* exists and is neither a digit, a '-' followed by a digit, nor a single
\* quote makes parse_command return Err(InvalidValue); a value position at
\* the end of the input returns Err(EndOfInput) and a text whose closing
\* quote is missing returns Err(RunawayText).
InvalidValueForNoValueStart ==
    /\ (Parsed /\ InsertHead(shape) /\ NoValueStart(shape))
          => cmd = ParseErr("InvalidValue")
    /\ (Parsed /\ InsertHead(shape) /\ ValueAtEndOfInput(shape))
          => cmd = ParseErr("EndOfInput")
    /\ (Parsed /\ InsertHead(shape) /\ shape.list.class = "runaway")
          => cmd = ParseErr("RunawayText")

\* an insert whose second value position holds a bare '_' was refused
InvalidValueSeen ==
    /\ Parsed
    /\ InsertHead(shape)
    /\ shape.list.text = <<"0", ",", " ", "_", ")">>
    /\ cmd = ParseErr("InvalidValue")

\* the first thing wrong with the line is a non-letter where a table or
\* column identifier is expected
NonLetterAtIdentifier(sh) ==
    \/ sh.kind = "select" /\ sh.list.class = "bad_ident"
    \/ sh.kind = "select" /\ sh.list.class = "ok" /\ sh.table.class = "bad"
    \/ sh.kind \in {"create", "insert"} /\ sh.table.class = "bad"
    \/ sh.kind = "create" /\ sh.table.class = "ok" /\ sh.list.class = "bad_ident"

\* C16: in any statement kind, when the position where a table or column
\* identifier is expected starts with a character that is not an ASCII
\* letter, parse_command returns Err(InvalidIdentifier); no other alternative
\* is tried and no other error is reported.
InvalidIdentifierReported ==
    (Parsed /\ NonLetterAtIdentifier(shape)) => cmd = ParseErr("InvalidIdentifier")

\* a create table statement whose second column name starts with '_' was refused
InvalidIdentifierSeen ==
    /\ Parsed
    /\ shape.kind = "create"
    /\ shape.table.class = "ok"
    /\ shape.list.text = <<"a", " ", "t", "e", "x", "t", ",", " ", "_", " ", "t", "e", "x", "t", ")">>
    /\ cmd = ParseErr("InvalidIdentifier")

\* parse_command has gone on to parse_statement: parse_meta_command failed
\* with FailedToLex
StatementTried ==
    /\ ~ parse_meta_command(line).ok
    /\ ignore_fail(parse_meta_command(line).err)

\* Parser.input when parse_statement is entered
StatementInput == parse_meta_command(line).rest

\* the results of the three alternatives, each on the input the one before left
SelectTried == parse_select(StatementInput)

CreateTableTried == parse_create_table(SelectTried.rest)

InsertIntoTried == parse_insert_into(CreateTableTried.rest)

\* the alternative failed with FailedToLex
FailedToLex(r) == ~ r.ok /\ r.err = "FailedToLex"

\* C27: parse_statement tries the alternatives select, create table, insert
\* into in that order, and an alternative that fails with FailedToLex leaves
\* the parser's remaining input exactly as it was before that alternative was
\* tried, so the next alternative is parsed from the start of the statement.
FailedAlternativeKeepsInput ==
    (Parsed /\ StatementTried) =>
        /\ FailedToLex(SelectTried) => SelectTried.rest = StatementInput
        /\ (FailedToLex(SelectTried) /\ FailedToLex(CreateTableTried))
              => CreateTableTried.rest = StatementInput
        /\ (FailedToLex(SelectTried) /\ FailedToLex(CreateTableTried)
               /\ FailedToLex(InsertIntoTried))
              => InsertIntoTried.rest = StatementInput

\* An alternative whose first keyword is not at the start of the statement
\* fails with FailedToLex and leaves the input as it was.
FirstKeywordFailureKeepsInput ==
    (Parsed /\ StatementTried) =>
        /\ (StatementInput # <<>> /\ ~ StartsWith(StatementInput, <<"s", "e", "l", "e", "c", "t">>))
              => (FailedToLex(SelectTried) /\ SelectTried.rest = StatementInput)
        /\ (FailedToLex(SelectTried) /\ ~ StartsWith(StatementInput, <<"c", "r", "e", "a", "t", "e">>))
              => (FailedToLex(CreateTableTried) /\ CreateTableTried.rest = StatementInput)

\* The keyword `create` consumed by the failed create table alternative is
\* gone when insert into is tried: the line is accepted as an insert.
CreateKeywordDropped ==
    (Parsed /\ line = <<"c", "r", "e", "a", "t", "e", " ", "i", "n", "s", "e", "r", "t", " ", "i", "n", "t", "o", " ", "t", " ", "v", "a", "l", "u", "e", "s", " ", "(", "0", ")", ";">>)
        => /\ cmd.kind = "Ok"
           /\ cmd.command.statement.stmt = "InsertInto"

\* ------------------------------------------------------------ repl

\* impl fmt::Display for ParseError
ParseErrorDisplay(e) ==
    CASE e = "FailedToLex" -> "Failed to lex"
      [] e = "InvalidIdentifier" -> "Invalid identifier"
      [] e = "EndOfInput" -> "Unexpected end of input"
      [] e = "MissingSemicolon" -> "Missing semicolon"
      [] e = "MissingLParen" -> "Missing left parenthesis from column list"
      [] e = "MissingRParen" -> "Missing right parenthesis from column list"
      [] e = "MissingComma" -> "Missing comma from column list"
      [] e = "UnrecognizedMetaCommand" -> "Unrecognized meta-command"
      [] e = "UnrecognizedStatement" -> "Unrecognized SQL statement"
      [] e = "UnrecognizedType" -> "Unrecognized data type"
      [] e = "RunawayText" -> "No closing delimiter for text"
      [] e = "InvalidValue" -> "Invalid value"
      [] e = "MissingFrom" -> "Missing 'from' clause in 'select'-statement"
      [] e = "MissingType" -> "Missing type in column list"

\* impl fmt::Display for StorageError
StorageErrorDisplay(e) ==
    CASE e = "TableNotFound" -> "Table not found"
      [] e = "SchemaMismatch" -> "Schema mismatch"
      [] e = "TypeError" -> "Type error"
      [] e = "TableNameAlreadyInUse" -> "Table name already in use"

\* a line written to standard output: a fixed text and a formatted value
PrintLine(prefix, text) == [kind |-> "Line", prefix |-> prefix, text |-> text]

\* println!("Welcome to juicydb")
Welcome == PrintLine("", "Welcome to juicydb")

\* print!("> ")
Prompt == [kind |-> "Prompt"]

\* println!("Parse error: {}", err)
PrintParseError(e) == PrintLine("Parse error: ", ParseErrorDisplay(e))

\* println!("SQL error: {}", err)
PrintSqlError(e) == PrintLine("SQL error: ", StorageErrorDisplay(e))

\* for row in rows { for col in row { print!("{}, ", col) } println!() }
PrintRows(rows) == [kind |-> "Rows", rows |-> rows]

\* println!("{:#?}", storage)
PrintStorage(storage) == [kind |-> "Debug", storage |-> storage]

\* lines typed at the prompt, each with the newline read_line keeps
ReplLines ==
    { <<"c", "r", "e", "a", "t", "e", " ", "t", "a", "b", "l", "e", " ", "t", " ", "(", "a", " ", "i", "n", "t", "e", "g", "e", "r", ")", ";", "\n">>,
      <<"c", "r", "e", "a", "t", "e", " ", "t", "a", "b", "l", "e", " ", "t", " ", "(", "b", " ", "t", "e", "x", "t", ",", " ", "a", " ", "i", "n", "t", "e", "g", "e", "r", ")", ";", "\n">>,
      <<"i", "n", "s", "e", "r", "t", " ", "i", "n", "t", "o", " ", "t", " ", "v", "a", "l", "u", "e", "s", " ", "(", "0", ")", ";", "\n">>,
      <<"i", "n", "s", "e", "r", "t", " ", "i", "n", "t", "o", " ", "t", " ", "v", "a", "l", "u", "e", "s", " ", "(", "'", "x", "'", ",", " ", "1", ")", ";", "\n">>,
      <<"i", "n", "s", "e", "r", "t", " ", "i", "n", "t", "o", " ", "t", " ", "v", "a", "l", "u", "e", "s", " ", "(", "'", "x", "'", ")", ";", "\n">>,
      <<"s", "e", "l", "e", "c", "t", " ", "(", "a", ")", " ", "f", "r", "o", "m", " ", "t", ";", "\n">>,
      <<"s", "e", "l", "e", "c", "t", " ", "(", "c", ")", " ", "f", "r", "o", "m", " ", "t", ";", "\n">>,
      <<"s", "e", "l", "e", "c", "t", " ", "(", "a", ")", " ", "f", "r", "o", "m", " ", "u", ";", "\n">>,
      <<".", "p", "r", "i", "n", "t", "\n">>,
      <<".", "e", "x", "i", "t", "\n">>,
      <<"d", "r", "o", "p", ";", "\n">>,
      <<"s", "e", "l", "e", "c", "t", " ", "(", "a", ")", " ", "f", "r", "o", "m", " ", "t", "\n">>,
      <<"s", "e", "l", "e", "c", "t", " ", "(", "a", ")", " ", "f", "r", "o", "m", " ", "t", " ", "w", "h", "e", "r", "e", " ", "a", ";", "\n">>,
      <<"\n">> }

\* the line is an insert into statement
IsInsertLine(l) == StartsWith(l, <<"i", "n", "s", "e", "r", "t">>)

\* no table holds MaxRows rows
RoomForRow == \A n \in DOMAIN tables : Len(tables[n].rows) < MaxRows

ReplInit ==
    /\ CodecIdle
    /\ ParserIdle
    /\ StorageIdle
    /\ replPc = "prompt"
    /\ stdout = Welcome

\* the prompt, read_line, the test for end of input and Parser::new
ReadLine ==
    /\ replPc = "prompt"
    /\ cmd' = NoResult
    /\ \/ \E l \in ReplLines :
             /\ IsInsertLine(l) => RoomForRow
             /\ line' = l
             /\ parserInput' = l
             /\ replPc' = "parse"
             /\ stdout' = Prompt
       \/ /\ line' = <<>>
          /\ parserInput' = <<>>
          /\ replPc' = "returned"
          /\ stdout' = Prompt
       \/ /\ line' = <<>>
          /\ parserInput' = <<>>
          /\ replPc' = "panicked"
          /\ stdout' = Prompt
    /\ UNCHANGED <<shape, codecVars, storageVars>>

\* parser.parse_command() and the Err arm of match stmt
ParseLine ==
    /\ replPc = "parse"
    /\ \E r \in {parse_command(parserInput)} :
          /\ cmd' = Outcome(r)
          /\ parserInput' = r.rest
          /\ IF r.ok THEN replPc' = "execute" /\ UNCHANGED stdout
             ELSE IF r.err = Unwound THEN replPc' = "panicked" /\ UNCHANGED stdout
             ELSE replPc' = "prompt" /\ stdout' = PrintParseError(r.err)
    /\ UNCHANGED <<shape, line, codecVars, storageVars>>

\* let process = match stmt { .. }
Process(stmt) ==
    IF stmt.stmt = "CreateTable" THEN create_table(stmt.table, stmt.columns)
    ELSE IF stmt.stmt = "InsertInto" THEN insert_into(stmt.table, stmt.values)
    ELSE query(stmt.table, stmt.columns)

\* what the Command::Statement arm prints
PrintProcess(stmt, process) ==
    IF process.kind = "Err" THEN PrintSqlError(process.error)
    ELSE IF stmt.stmt = "Select" THEN PrintRows(process.rows)
    ELSE Prompt

\* the Ok arm of match stmt
Execute ==
    /\ replPc = "execute"
    /\ IF cmd.command.command = "MetaCommand"
       THEN IF cmd.command.meta = "Exit"
            THEN replPc' = "returned" /\ UNCHANGED <<stdout, storageVars>>
            ELSE /\ replPc' = "prompt"
                 /\ stdout' = PrintStorage(tables)
                 /\ UNCHANGED storageVars
       ELSE /\ Process(cmd.command.statement)
            /\ stdout' = PrintProcess(cmd.command.statement, ret')
            /\ replPc' = "prompt"
    /\ UNCHANGED <<shape, line, parserInput, cmd, codecVars>>

ReplNext == ReadLine \/ ParseLine \/ Execute

ReplSpec == ReplInit /\ [][ReplNext]_vars

\* ------------------------------------------------------------ repl: properties

\* the step printed a line that begins with the prefix
Printed(prefix) == stdout'.kind = "Line" /\ stdout'.prefix = prefix

\* the step ends an iteration and the loop goes on with the next prompt
LoopContinues == replPc' = "prompt"

\* the step leaves the loop through `break` or `return`
LoopEnds ==
    /\ replPc' = "returned"
    /\ \/ replPc = "prompt" /\ line' = <<>>
       \/ /\ replPc = "execute"
          /\ cmd.command.command = "MetaCommand"
          /\ cmd.command.meta = "Exit"

\* C24: in the REPL loop a command that fails to parse or that returns a
\* StorageError prints 'Parse error: ..' or 'SQL error: ..', leaves the
\* storage manager's tables and rows unchanged, and the loop continues with
\* the next prompt; the loop ends only on '.exit' or on end of input.
FailureIsReportedError ==
    [][/\ (replPc = "parse" /\ cmd'.kind # "Ok")
             => (Printed("Parse error: ") /\ tables' = tables /\ LoopContinues)
       /\ (replPc = "execute" /\ cmd.command.command = "Statement" /\ ret'.kind = "Err")
             => (Printed("SQL error: ") /\ tables' = tables /\ LoopContinues)
       /\ replPc' \notin {"prompt", "parse", "execute"} => LoopEnds]_vars

\* A command for which parse_command returns Err, or the storage manager a
\* StorageError, is reported and changes nothing; the loop is left through
\* `break` or `return` only at end of input or on '.exit', and otherwise only
\* by a panic: of todo!() in parse_condition or of expect on a failed read.
FailureReportedUnlessPanic ==
    [][/\ (replPc = "parse" /\ cmd'.kind = "Err")
             => (Printed("Parse error: ") /\ tables' = tables /\ LoopContinues)
       /\ (replPc = "execute" /\ cmd.command.command = "Statement" /\ ret'.kind = "Err")
             => (Printed("SQL error: ") /\ tables' = tables /\ LoopContinues)
       /\ replPc' = "returned" => LoopEnds
       /\ replPc' = "panicked"
             => \/ replPc = "prompt"
                \/ replPc = "parse" /\ cmd' = Panic("not yet implemented")]_vars

\* the select with a where clause ended the process after a table was made
WhereEndsLoop ==
    /\ replPc = "panicked"
    /\ cmd = Panic("not yet implemented")
    /\ tables # EmptyTables

====
